---- MODULE Spec2Model ----
(***************************************************************************)
(* Head-pan / pinch-volume tracker (src/app.py).                           *)
(*                                                                         *)
(* Numbers are scaled integers:                                            *)
(*   - bounding-box coordinates in tenths (BoxOne = 1.0), so the box       *)
(*     centre cx = xmin + width/2 is held in twentieths;                   *)
(*   - the pre-smoothing pan in tenths (PanOne = 1.0);                     *)
(*   - a smoothed pan as the exact fraction sum / (n * PanOne);            *)
(*   - landmark coordinates and distances in hundredths;                   *)
(*   - volume in 1/1600 (VolOne = 1.0), which makes the interpolation      *)
(*     over [0.02, 0.18] exact on the hundredths grid;                     *)
(*   - the detection score in hundredths.                                  *)
(***************************************************************************)
EXTENDS Integers, Sequences, FiniteSets, TLC

VARIABLES
    camera,       \* the global camera handle: "None" or "VideoCapture"
    is_running,   \* the global running flag
    pan_history,  \* the global smoothing history
    pc,           \* where each camera_loop thread stands
    local,        \* the face and pan locals of each thread's tick in flight
    connected,    \* the clients the transport holds a connection for
    head,         \* where the subject's head is, as the face detector sees it
    last_event,   \* the event most recently published to the clients
    held,         \* the pan of the latest audio_update of a tick with a face
    recent,       \* the latest SMOOTH values passed to smooth_pan, in call order
    sinceStop,    \* events each thread published since the flag went false
    fnIn, fnOut   \* argument and result of a pure function under test

vars == <<camera, is_running, pan_history, pc, local, connected, head,
          last_event, held, recent, sinceStop, fnIn, fnOut>>

\* ------------------------------------------------------------ bounds
MaxThreads == 2
MaxClients == 2
GridMax == 20

Threads == 1..MaxThreads
Clients == 1..MaxClients

\* ------------------------------------------------- program constants
SMOOTH == 6
SENSITIVITY == 3
BoxOne == 10
PanOne == 10
VolOne == 1600
DIST_LO == 2
DIST_HI == 18

Min(a, b) == IF a < b THEN a ELSE b
Max(a, b) == IF a > b THEN a ELSE b
Abs(a) == IF a < 0 THEN -a ELSE a

\* ------------------------------------------------------- detections
NoFace == [none |-> TRUE]
NoHand == [none |-> TRUE]
Face(xmin, width, score) == [xmin |-> xmin, width |-> width, score |-> score]
Hand(tx, ty, ix, iy) == [thumb |-> <<tx, ty>>, index |-> <<ix, iy>>]

\* The detector outputs a tick may see: no face, a box at the left edge of
\* the frame (cx = 0.1) or a box far outside the frame to the right
\* (cx = 2.6), depending on where the head is; no hand, or a pinched, a
\* half-open or a wide-open hand.
LeftFace == Face(0, 2, 90)
FarFace == Face(25, 2, 60)
FaceAt(h) == IF h = "left" THEN LeftFace ELSE FarFace
PinchHand == Hand(50, 50, 50, 50)
HalfHand == Hand(50, 50, 56, 58)
OpenHand == Hand(10, 50, 40, 50)
Hands == {PinchHand, HalfHand, OpenHand}

\* The boxes and hands the estimators are tabulated on: boxes from left of
\* the frame to right of it, and every pair of landmarks on the grid whose
\* distance is a whole number of hundredths.
BoxGrid == {Face(x, w, 60) : x \in (0 - 3)..(BoxOne + 2), w \in 0..3}

\* -------------------------------------------------- pure functions
\* cx = box.xmin + box.width / 2, in twentieths
CxLeftEdge(box) == 2 * box.xmin
Cx(box) == 2 * box.xmin + box.width

\* pan = ((cx * 2) - 1) * SENSITIVITY, in tenths
RawPan(cx) == (((cx * 2) - 2 * BoxOne) * SENSITIVITY * PanOne) \div (2 * BoxOne)

\* pan = max(-1, min(1, pan))
ClampPanUpperOnly(p) == Min(PanOne, p)
ClampPan(p) == Max(-PanOne, Min(PanOne, p))

\* The pan that a face box gives before smoothing
PrePan(box) == ClampPan(RawPan(Cx(box)))

RECURSIVE Sum(_)
Sum(s) == IF s = <<>> THEN 0 ELSE Head(s) + Sum(Tail(s))

\* float(np.mean(pan_history)) as the fraction sum / (n * PanOne)
Mean(h) == [sum |-> Sum(h), n |-> Len(h)]

\* math.hypot on the inputs whose distance lies on the hundredths grid
IsSquare(k) == \E r \in 0..k : r * r = k
Hypot(dx, dy) == CHOOSE r \in 0..(Abs(dx) + Abs(dy)) : r * r = dx * dx + dy * dy

\* np.interp(x, [xp0, xp1], [fp0, fp1])
InterpFromZero(x, xp0, xp1, fp0, fp1) ==
    IF x <= xp0 THEN fp0
    ELSE IF x >= xp1 THEN fp1
    ELSE fp0 + (x * (fp1 - fp0)) \div xp1

Interp(x, xp0, xp1, fp0, fp1) ==
    IF x <= xp0 THEN fp0
    ELSE IF x >= xp1 THEN fp1
    ELSE fp0 + ((x - xp0) * (fp1 - fp0)) \div (xp1 - xp0)

Dist(hand) == Hypot(hand.thumb[1] - hand.index[1], hand.thumb[2] - hand.index[2])

HandGrid ==
    {h \in {Hand(tx, 0, ix, iy) : tx \in {0, GridMax}, ix \in 0..GridMax, iy \in 0..GridMax} :
        IsSquare((h.thumb[1] - h.index[1]) * (h.thumb[1] - h.index[1])
                 + (h.thumb[2] - h.index[2]) * (h.thumb[2] - h.index[2]))}

calculate_volume(hand) ==
    LET dist == Dist(hand)
        volume == Interp(dist, DIST_LO, DIST_HI, 0, VolOne)
    IN  Max(0, Min(VolOne, volume))

\* pan = 0.0; volume = 1.0; confidence = 0.0 at the top of every tick
TickDefaultsPanRight == [pan |-> [sum |-> PanOne, n |-> 1], volume |-> VolOne, confidence |-> 0]
TickDefaults == [pan |-> [sum |-> 0, n |-> 1], volume |-> VolOne, confidence |-> 0]

\* The locals of a tick that has detected no face (yet); the locals are
\* reassigned at the top of every tick and never read after the payload is
\* built, so outside a tick they hold this value too.
NoLocal == [face |-> NoFace, pan |-> TickDefaults.pan]

NoEvent == [event |-> "none"]
NoPan == [sum |-> 0, n |-> 0]

LastN(s, n) == IF Len(s) <= n THEN s ELSE SubSeq(s, Len(s) - n + 1, Len(s))

Alive(t) == pc[t] \notin {"idle", "stopped"}

\* ------------------------------------------------------------- Init
InitProgram ==
    /\ camera = "None"
    /\ is_running = FALSE
    /\ pan_history = <<>>
    /\ pc = [t \in Threads |-> "idle"]
    /\ local = [t \in Threads |-> NoLocal]
    /\ connected = {}
    /\ head = "left"
    /\ last_event = NoEvent
    /\ held = NoPan
    /\ recent = <<>>
    /\ sinceStop = [t \in Threads |-> 0]

Init ==
    /\ InitProgram
    /\ fnIn = <<>>
    /\ fnOut = <<>>

\* --------------------------------------------------------- handlers
\* A client's transport-level connect: no handler is registered for it.
Connect(c) ==
    /\ c \notin connected
    /\ connected' = connected \cup {c}
    /\ UNCHANGED <<camera, is_running, pan_history, pc, local, head,
                   last_event, held, recent, sinceStop, fnIn, fnOut>>

\* The subject turns the head from the left edge to beyond the right edge.
MoveHead ==
    /\ head = "left"
    /\ head' = "far"
    /\ UNCHANGED <<camera, is_running, pan_history, pc, local, connected,
                   last_event, held, recent, sinceStop, fnIn, fnOut>>

\* if camera is None: camera = cv2.VideoCapture(...)
AcquireAgain(cam) == IF cam = "None" THEN "VideoCapture" ELSE "Reopened"
Acquire(cam) == IF cam = "None" THEN "VideoCapture" ELSE cam

\* threading.Thread(target=camera_loop).start(): the first unused thread
SpawnAll(t) ==
    /\ pc[t] = "idle"
    /\ \A u \in Threads : pc[u] = "idle" => t <= u
    /\ pc' = [u \in Threads |-> IF pc[u] = "idle" THEN "while" ELSE pc[u]]

Spawn(t) ==
    /\ pc[t] = "idle"
    /\ \A u \in Threads : pc[u] = "idle" => t <= u
    /\ pc' = [pc EXCEPT ![t] = "while"]

\* @socketio.on("start_tracking"). The handler is taken as one step: its
\* test of is_running and its assignment are not interleaved with another
\* handler. A client can only send the event over a connection it holds,
\* and a start that would need more than MaxThreads threads is left out.
StartTracking(c) ==
    /\ c \in connected
    /\ is_running \/ \E t \in Threads : pc[t] = "idle"
    /\ camera' = Acquire(camera)
    /\ IF ~is_running
       THEN /\ is_running' = TRUE
            /\ \E t \in Threads : Spawn(t)
       ELSE UNCHANGED <<is_running, pc>>
    /\ sinceStop' = [t \in Threads |-> 0]
    /\ UNCHANGED <<pan_history, local, connected, head, last_event, held, recent,
                   fnIn, fnOut>>

\* is_running = False
StopFlagLastClient(remaining) == remaining # {}
StopFlag(remaining) == FALSE

\* @socketio.on("disconnect"): fired by the transport for a connected client
DisconnectClears(c) ==
    /\ c \in connected
    /\ connected' = connected \ {c}
    /\ is_running' = (is_running /\ StopFlag(connected \ {c}))
    /\ pan_history' = <<>>
    /\ UNCHANGED <<camera, pc, local, head, last_event, held,
                   recent, sinceStop, fnIn, fnOut>>

Disconnect(c) ==
    /\ c \in connected
    /\ connected' = connected \ {c}
    /\ is_running' = (is_running /\ StopFlag(connected \ {c}))
    /\ UNCHANGED <<camera, pan_history, pc, local, head, last_event, held,
                   recent, sinceStop, fnIn, fnOut>>

\* ------------------------------------------------------ camera_loop
\* while is_running and camera:
LoopConditionCameraOnly == camera # "None"
LoopCondition == is_running /\ camera # "None"

\* The test is reached from the end of a tick ("while") or from the continue
\* after a failed read ("retry").
LoopCheck(t) ==
    /\ pc[t] \in {"while", "retry"}
    /\ pc' = [pc EXCEPT ![t] = IF LoopCondition THEN "read" ELSE "stopped"]
    /\ UNCHANGED <<camera, is_running, pan_history, local, connected, head,
                   last_event, held, recent, sinceStop, fnIn, fnOut>>

\* ret, frame = camera.read(); if not ret: continue
ReadFailFatal(t) ==
    /\ pc[t] = "read"
    /\ pc' = [pc EXCEPT ![t] = "stopped"]
    /\ is_running' = FALSE
    /\ UNCHANGED <<camera, pan_history, local, connected, head,
                   last_event, held, recent, sinceStop, fnIn, fnOut>>

ReadFail(t) ==
    /\ pc[t] = "read"
    /\ pc' = [pc EXCEPT ![t] = "retry"]
    /\ UNCHANGED <<camera, is_running, pan_history, local, connected, head,
                   last_event, held, recent, sinceStop, fnIn, fnOut>>

\* A frame was read, the defaults are set and the face detector has run.
\* With no face the tick has nothing left to do but detect the hand and
\* publish; with a face the clamped pan is about to be passed to smooth_pan.
ReadFrame(t) ==
    /\ pc[t] = "read"
    /\ \/ /\ local' = [local EXCEPT ![t] = NoLocal]
          /\ pc' = [pc EXCEPT ![t] = "emit_audio"]
       \/ /\ local' = [local EXCEPT ![t] = [NoLocal EXCEPT !.face = FaceAt(head)]]
          /\ pc' = [pc EXCEPT ![t] = "append"]
    /\ UNCHANGED <<camera, is_running, pan_history, connected, head, last_event,
                   held, recent, sinceStop, fnIn, fnOut>>

\* smooth_pan: pan_history.append(val)
SmoothAppend(t) ==
    /\ pc[t] = "append"
    /\ LET val == PrePan(local[t].face)
       IN  /\ pan_history' = Append(pan_history, val)
           /\ recent' = LastN(Append(recent, val), SMOOTH)
    /\ pc' = [pc EXCEPT ![t] = "pop"]
    /\ UNCHANGED <<camera, is_running, local, connected, head, last_event, held,
                   sinceStop, fnIn, fnOut>>

\* smooth_pan: if len(pan_history) > SMOOTH: pan_history.pop(0)
EvictToHalf(h) == IF Len(h) > SMOOTH THEN Tail(Tail(Tail(h))) ELSE h
Evict(h) == IF Len(h) > SMOOTH THEN Tail(h) ELSE h

SmoothPop(t) ==
    /\ pc[t] = "pop"
    /\ pan_history' = Evict(pan_history)
    /\ pc' = [pc EXCEPT ![t] = "mean"]
    /\ UNCHANGED <<camera, is_running, local, connected, head, last_event, held,
                   recent, sinceStop, fnIn, fnOut>>

\* smooth_pan: return float(np.mean(pan_history))
SmoothMean(t) ==
    /\ pc[t] = "mean"
    /\ local' = [local EXCEPT ![t].pan = Mean(pan_history)]
    /\ pc' = [pc EXCEPT ![t] = "emit_audio"]
    /\ UNCHANGED <<camera, is_running, pan_history, connected, head, last_event,
                   held, recent, sinceStop, fnIn, fnOut>>

\* confidence = det.score[0] when a face was detected
ConfidenceSmoothed(face) ==
    IF face = NoFace THEN TickDefaults.confidence
    ELSE (face.score * Len(pan_history)) \div SMOOTH

Confidence(face) == IF face = NoFace THEN TickDefaults.confidence ELSE face.score

\* volume = calculate_volume(...) when a hand was detected
VolumeMuted(hand) == IF hand = NoHand THEN 0 ELSE calculate_volume(hand)
Volume(hand) == IF hand = NoHand THEN TickDefaults.volume ELSE calculate_volume(hand)

\* The events a stopped flag has seen from a thread, counted up to 3.
Bump(n) == IF is_running THEN 0 ELSE IF n < 3 THEN n + 1 ELSE n

\* The hand detector runs on the frame and the payload is published:
\* socketio.emit("audio_update", {pan, volume, confidence})
EmitAudio(t) ==
    /\ pc[t] = "emit_audio"
    /\ \E hand \in Hands \cup {NoHand} :
         last_event' = [event |-> "audio_update", by |-> t,
                        face |-> local[t].face, hand |-> hand,
                        pan |-> local[t].pan, volume |-> Volume(hand),
                        confidence |-> Confidence(local[t].face)]
    /\ held' = IF local[t].face # NoFace THEN local[t].pan ELSE held
    /\ sinceStop' = [sinceStop EXCEPT ![t] = Bump(@)]
    /\ local' = [local EXCEPT ![t] = NoLocal]
    /\ pc' = [pc EXCEPT ![t] = "emit_video"]
    /\ UNCHANGED <<camera, is_running, pan_history, connected, head, recent,
                   fnIn, fnOut>>

\* socketio.emit("video_frame", ...); time.sleep(0.03)
EmitVideo(t) ==
    /\ pc[t] = "emit_video"
    /\ last_event' = [event |-> "video_frame", by |-> t]
    /\ sinceStop' = [sinceStop EXCEPT ![t] = Bump(@)]
    /\ pc' = [pc EXCEPT ![t] = "while"]
    /\ UNCHANGED <<camera, is_running, pan_history, local, connected, head, held,
                   recent, fnIn, fnOut>>

ThreadStep(t) ==
    \/ LoopCheck(t)
    \/ ReadFail(t)
    \/ ReadFrame(t)
    \/ SmoothAppend(t)
    \/ SmoothPop(t)
    \/ SmoothMean(t)
    \/ EmitAudio(t)
    \/ EmitVideo(t)

Next ==
    \/ \E c \in Clients : Connect(c)
    \/ MoveHead
    \/ \E c \in Clients : StartTracking(c)
    \/ \E c \in Clients : Disconnect(c)
    \/ \E t \in Threads : ThreadStep(t)

Spec == Init /\ [][Next]_vars

\* The same program in front of a subject who keeps the head still.
StillNext ==
    \/ \E c \in Clients : Connect(c)
    \/ \E c \in Clients : StartTracking(c)
    \/ \E c \in Clients : Disconnect(c)
    \/ \E t \in Threads : ThreadStep(t)

StillSpec == Init /\ [][StillNext]_vars

\* Every camera_loop thread is a daemon thread that the interpreter keeps
\* scheduling: a thread that can take a step eventually takes one.
FairStillSpec == StillSpec /\ \A t \in Threads : WF_vars(ThreadStep(t))

\* ------------------------------------------- the estimators, tabulated
progVars == <<camera, is_running, pan_history, pc, local, connected, head,
              last_event, held, recent, sinceStop>>

VolumeInit == InitProgram /\ fnIn \in HandGrid /\ fnOut = <<>>

ApplyVolume ==
    /\ fnOut = <<>>
    /\ fnOut' = <<calculate_volume(fnIn)>>
    /\ UNCHANGED <<fnIn, progVars>>

VolumeSpec == VolumeInit /\ [][ApplyVolume]_vars

PanInit == InitProgram /\ fnIn \in BoxGrid \X BoxGrid /\ fnOut = <<>>

ApplyPan ==
    /\ fnOut = <<>>
    /\ fnOut' = <<PrePan(fnIn[1]), PrePan(fnIn[2])>>
    /\ UNCHANGED <<fnIn, progVars>>

PanSpec == PanInit /\ [][ApplyPan]_vars

\* ============================================================ claims
Published == last_event.event = "audio_update"

SamePan(p, q) == p.sum * q.n = q.sum * p.n

\* C1: at most one camera_loop thread is alive at any time.
AtMostOneLoop == Cardinality({t \in Threads : Alive(t)}) <= 1

PayloadInRange ==
    Published
        => /\ last_event.pan.n > 0
           /\ 0 - last_event.pan.n * PanOne <= last_event.pan.sum
           /\ last_event.pan.sum <= last_event.pan.n * PanOne
           /\ 0 <= last_event.volume
           /\ last_event.volume <= VolOne

\* A box far outside the frame and a hand opened beyond 0.18 are published
\* with a pan smoothed over a full history of both head positions.
FarFaceOpenHandPublished ==
    /\ Published /\ last_event.face # NoFace /\ last_event.hand # NoHand
    /\ RawPan(2 * last_event.face.xmin + last_event.face.width) > PanOne
    /\ Dist(last_event.hand) > DIST_HI
    /\ last_event.pan.n = SMOOTH
    /\ last_event.pan.sum < SMOOTH * PanOne

\* C4: a tick that detects no face publishes confidence 0.0 and a tick that
\* detects no hand publishes volume 1.0, whatever earlier ticks detected.
DefaultsWithoutDetection ==
    Published
        => /\ last_event.face = NoFace => last_event.confidence = 0
           /\ last_event.hand = NoHand => last_event.volume = VolOne

\* A tick without detections is published after ticks with a face have
\* filled the history.
DefaultsAfterDetection ==
    /\ Published /\ last_event.face = NoFace /\ last_event.hand = NoHand
    /\ held # NoPan /\ Len(pan_history) = SMOOTH

\* C5: the frame event of a tick directly follows the signal event of the
\* same tick: while a loop stands between its two emits, the event published
\* last is its own audio_update, so no event of another tick comes between.
FrameFollowsSignal ==
    \A t \in Threads :
        pc[t] = "emit_video" => (Published /\ last_event.by = t)

\* C6: a disconnect of any client sets the running flag to false whoever
\* else is connected, no loop begins a tick while the flag is false, and
\* only a start_tracking sets the flag to true again.
AnyDisconnectStopsAll ==
    [][ /\ \A c \in Clients : Disconnect(c) => ~is_running'
        /\ (~is_running /\ is_running') => \E c \in Clients : StartTracking(c)
        /\ ~is_running => \A t \in Threads : pc[t] # "read" => pc'[t] # "read"
      ]_vars

\* The flag is false, a client is still connected, one loop has exited and
\* another is still on its way out.
StoppedWhileClientRemains ==
    /\ ~is_running
    /\ connected # {}
    /\ \E t \in Threads : pc[t] = "stopped"
    /\ \E t \in Threads : Alive(t)

\* C7: calculate_volume gives 0.0 for a distance of at most 0.02, 1.0 for a
\* distance of at least 0.18, and (d - 0.02) / 0.16 in between (0.5 at 0.10).
VolumeIsInterpolation ==
    fnOut # <<>>
        => LET d == Dist(fnIn)
               v == fnOut[1]
           IN  /\ d <= 2 => v = 0
               /\ d >= 18 => v = VolOne
               /\ (2 < d /\ d < 18) => v * 16 = (d - 2) * VolOne
               /\ d = 10 => 2 * v = VolOne

\* A thumb and an index tip 0.10 apart, on neither axis.
VolumeAtHalf ==
    /\ fnOut # <<>>
    /\ Dist(fnIn) = 10
    /\ fnIn.thumb[2] # fnIn.index[2]
    /\ fnIn.thumb[1] # fnIn.index[1]

\* C8: the pan before smoothing is (cx * 2 - 1) * 3 clamped to [-1, 1] with
\* cx = xmin + width / 2; it lies in [-1, 1] and does not decrease when cx
\* grows; cx = 0.5 gives 0.0 and cx = 0.1 gives -2.4 clamped to -1.0.
Centre(box) == 2 * box.xmin + box.width

PanIsClampedLine ==
    fnOut # <<>>
        => LET cxA == Centre(fnIn[1])
               cxB == Centre(fnIn[2])
               line == 3 * (cxA - 10)
           IN  /\ line <= 0 - 10 => fnOut[1] = 0 - PanOne
               /\ line >= 10 => fnOut[1] = PanOne
               /\ (0 - 10 < line /\ line < 10) => fnOut[1] = line
               /\ 0 - PanOne <= fnOut[1] /\ fnOut[1] <= PanOne
               /\ cxA <= cxB => fnOut[1] <= fnOut[2]
               /\ cxA = 10 => fnOut[1] = 0
               /\ cxA = 2 => (fnOut[1] = 0 - PanOne /\ line = 0 - 24)

\* The box {xmin: 0.0, width: 0.2} beside the box {xmin: 0.4, width: 0.2}.
PanAtLeftEdge ==
    /\ fnOut # <<>>
    /\ fnIn[1].xmin = 0 /\ fnIn[1].width = 2
    /\ fnIn[2].xmin = 4 /\ fnIn[2].width = 2

\* C9: when smooth_pan returns, pan_history holds at most SMOOTH values, they
\* are the latest values passed to smooth_pan in call order, and the value
\* returned is their mean.
SmoothPanContract ==
    [][ \A t \in Threads :
          SmoothMean(t) => /\ Len(pan_history') <= SMOOTH
                           /\ pan_history' = recent'
                           /\ local'[t].pan = Mean(recent')
      ]_vars

\* C10: while the flag is false a loop publishes at most the two events of
\* the tick it had in flight, and if the flag stays false every loop exits.
StopDrainsLoops ==
    /\ [](~is_running => \A t \in Threads : sinceStop[t] <= 2)
    /\ (<>[](~is_running)) => <>[](\A t \in Threads : ~Alive(t))

\* A loop has published the two events of its tick in flight after the flag
\* went false, and has exited.
DrainedAfterStop ==
    /\ ~is_running
    /\ \E t \in Threads : pc[t] = "stopped" /\ sinceStop[t] = 2

\* C11: a tick whose camera read fails publishes nothing, leaves pan_history,
\* the camera handle and the running flag as they are, and leaves the loop
\* alive at its while test, from where it reads again if the flag still holds.
FailedReadIsSkipped ==
    [][ \A t \in Threads :
          /\ (pc[t] = "read" /\ pc'[t] \notin {"read", "append", "emit_audio"})
                => /\ pc'[t] = "retry"
                   /\ last_event' = last_event
                   /\ pan_history' = pan_history
                   /\ camera' = camera
                   /\ is_running' = is_running
          /\ (pc[t] = "retry" /\ pc'[t] # "retry")
                => pc'[t] = (IF is_running /\ camera # "None" THEN "read" ELSE "stopped")
      ]_vars

\* After a published tick with a face, the next read of the same loop has
\* failed and the loop is back at its while test with the flag still true.
RetryAfterFailedRead ==
    \E t \in Threads :
        /\ pc[t] = "retry" /\ is_running /\ camera # "None"
        /\ last_event = [event |-> "video_frame", by |-> t]
        /\ pan_history # <<>>

\* C12: pan_history changes only in a tick that detected a face, which
\* appends one value and then evicts at most one; a tick without a face, a
\* start_tracking and a disconnect leave it as it is.
OnlyFaceTicksTouchHistory ==
    [][ /\ pan_history' # pan_history
            => \E t \in Threads :
                 /\ local[t].face # NoFace
                 /\ \/ /\ pc[t] = "append" /\ pc'[t] = "pop"
                       /\ Len(pan_history') = Len(pan_history) + 1
                       /\ SubSeq(pan_history', 1, Len(pan_history)) = pan_history
                    \/ /\ pc[t] = "pop" /\ pc'[t] = "mean"
                       /\ pan_history' = Tail(pan_history)
        /\ \A t \in Threads :
             (pc[t] = "append" /\ pc'[t] # "append")
                => (pc'[t] = "pop" /\ Len(pan_history') = Len(pan_history) + 1)
        /\ \A t \in Threads :
             (pc[t] \in {"read", "emit_audio", "emit_video"} /\ pc'[t] # pc[t]
              /\ local[t].face = NoFace /\ local'[t].face = NoFace)
                => pan_history' = pan_history
        /\ (is_running' # is_running \/ connected' # connected \/ camera' # camera)
             => pan_history' = pan_history
      ]_vars

\* A tick without a face has been published over a history that earlier
\* ticks had filled, after a disconnect had made a loop exit.
NoFaceTickOverFullHistory ==
    /\ Published /\ last_event.face = NoFace
    /\ Len(pan_history) = SMOOTH /\ Len(recent) = SMOOTH
    /\ \E t \in Threads : pc[t] = "stopped"

\* C13: a start_tracking that finds the flag false sets it and starts exactly
\* one camera_loop thread; one that finds the flag true starts no thread and
\* leaves the flag and the camera handle as they are.
Started == {t \in Threads : pc[t] = "idle" /\ pc'[t] # "idle"}

VolumeOf(hand) ==
    CASE hand = NoHand    -> 1600
      [] hand = PinchHand -> 0
      [] hand = HalfHand  -> 800
      [] hand = OpenHand  -> 1600

ConfidenceOf(face) ==
    CASE face = NoFace   -> 0
      [] face = LeftFace -> 90
      [] face = FarFace  -> 60

PrePanOf(face) ==
    CASE face = LeftFace -> 0 - 10
      [] face = FarFace  -> 10

DetectionsFixVolumeAndConfidence ==
    /\ [](Published => /\ last_event.volume = VolumeOf(last_event.hand)
                       /\ last_event.confidence = ConfidenceOf(last_event.face))
    /\ [][ \A t \in Threads :
             (pc[t] = "append" /\ pc'[t] = "pop")
                => pan_history'[Len(pan_history')] = PrePanOf(local[t].face)
         ]_vars

\* A half-closed hand and a face beyond the right edge are published by a
\* tick whose smoothed pan still carries values of the earlier head position.
HalfHandOverMixedHistory ==
    /\ Published /\ last_event.hand = HalfHand /\ last_event.face = FarFace
    /\ last_event.pan.n = SMOOTH
    /\ last_event.pan.sum < SMOOTH * PanOne
    /\ last_event.pan.sum > 0 - SMOOTH * PanOne

====
